---- MODULE Spec2Model ----
(***************************************************************************)
(* build_bipartite_graph.py: a CSV of students is read, optionally         *)
(* sampled, every row is classified by a fixed list of 13 attribute        *)
(* predicates, and a networkx Graph is built with one node per student id, *)
(* one node per attribute name and one edge per match.                     *)
(*                                                                         *)
(* Text is a sequence of one-character strings, so that strip(), lower()   *)
(* and replace() are computed character by character.  A float is a        *)
(* record [k, m, e]: k = "num" stands for m / 10^e, k = "nan" for NaN and  *)
(* k = "inf" for +inf (m = 1) or -inf (m = -1).  Decimal literals are kept *)
(* exact; the rounding of IEEE doubles is not modelled.                    *)
(***************************************************************************)
EXTENDS Integers, Sequences, FiniteSets, TLC

(***************************************************************************)
(* Python str and float                                                    *)
(***************************************************************************)

\* The characters str.strip() removes from both ends.
Whitespace == {" ", "\t"}

UpperChars == <<"A","B","C","D","E","F","G","H","I","J","K","L","M",
                "N","O","P","Q","R","S","T","U","V","W","X","Y","Z">>

LowerChars == <<"a","b","c","d","e","f","g","h","i","j","k","l","m",
                "n","o","p","q","r","s","t","u","v","w","x","y","z">>

DigitChars == <<"0","1","2","3","4","5","6","7","8","9">>

\* str.lower() on one character.
LowerChar(c) ==
  IF \E i \in 1..Len(UpperChars) : UpperChars[i] = c
    THEN LowerChars[CHOOSE i \in 1..Len(UpperChars) : UpperChars[i] = c]
    ELSE c

\* str.lower()
Lower(s) == [i \in 1..Len(s) |-> LowerChar(s[i])]

RECURSIVE LStrip(_)
LStrip(s) ==
  IF s # <<>> /\ Head(s) \in Whitespace THEN LStrip(Tail(s)) ELSE s

RECURSIVE RStrip(_)
RStrip(s) ==
  IF s # <<>> /\ s[Len(s)] \in Whitespace
    THEN RStrip(SubSeq(s, 1, Len(s) - 1))
    ELSE s

\* str.strip()
Strip(s) == RStrip(LStrip(s))

\* str.replace(c, "") for a one-character c: every occurrence is removed.
RECURSIVE Remove(_, _)
Remove(s, c) ==
  IF s = <<>> THEN <<>>
  ELSE IF Head(s) = c THEN Remove(Tail(s), c)
  ELSE <<Head(s)>> \o Remove(Tail(s), c)

IsDigit(c) == \E i \in 1..Len(DigitChars) : DigitChars[i] = c

DigitVal(c) == (CHOOSE i \in 1..Len(DigitChars) : DigitChars[i] = c) - 1

AllDigits(s) == \A i \in 1..Len(s) : IsDigit(s[i])

\* The value of a string of decimal digits (0 for the empty string).
RECURSIVE DigitsVal(_)
DigitsVal(s) ==
  IF s = <<>> THEN 0
  ELSE 10 * DigitsVal(SubSeq(s, 1, Len(s) - 1)) + DigitVal(s[Len(s)])

RECURSIVE Pow10(_)
Pow10(n) == IF n = 0 THEN 1 ELSE 10 * Pow10(n - 1)

NaN == [k |-> "nan", m |-> 0, e |-> 0]

Inf(sign) == [k |-> "inf", m |-> sign, e |-> 0]

Num(m, e) == [k |-> "num", m |-> m, e |-> e]

\* float(s) raised ValueError
ValueErrorResult == [k |-> "ValueError", m |-> 0, e |-> 0]

\* float(None) raised TypeError
TypeErrorResult == [k |-> "TypeError", m |-> 0, e |-> 0]

\* The unsigned part of a float literal: nan, inf, infinity (any case), or
\* digits with an optional point and at least one digit.  Exponents and
\* underscores are not in the modelled inputs.
ParseUnsigned(s, sign) ==
  LET low == Lower(s)
      dots == {i \in 1..Len(s) : s[i] = "."}
  IN  IF low = <<"n","a","n">> THEN NaN
      ELSE IF low = <<"i","n","f">> \/ low = <<"i","n","f","i","n","i","t","y">>
        THEN Inf(sign)
      ELSE IF dots = {} THEN
        IF s # <<>> /\ AllDigits(s) THEN Num(sign * DigitsVal(s), 0)
        ELSE ValueErrorResult
      ELSE IF Cardinality(dots) = 1 THEN
        LET d == CHOOSE i \in dots : TRUE
            ip == SubSeq(s, 1, d - 1)
            fp == SubSeq(s, d + 1, Len(s))
        IN  IF AllDigits(ip) /\ AllDigits(fp) /\ Len(ip) + Len(fp) > 0
              THEN Num(sign * DigitsVal(ip \o fp), Len(fp))
              ELSE ValueErrorResult
      ELSE ValueErrorResult

\* float(s) for a str s: surrounding whitespace is ignored, one sign allowed.
ParseFloat(s) ==
  LET t == Strip(s)
  IN  IF t = <<>> THEN ValueErrorResult
      ELSE IF Head(t) = "-" THEN ParseUnsigned(Tail(t), -1)
      ELSE IF Head(t) = "+" THEN ParseUnsigned(Tail(t), 1)
      ELSE ParseUnsigned(t, 1)

\* a < b on floats; every comparison with NaN is False.
FloatLt(a, b) ==
  IF a.k = "nan" \/ b.k = "nan" THEN FALSE
  ELSE IF a.k = "inf" THEN a.m < 0 /\ ~(b.k = "inf" /\ b.m < 0)
  ELSE IF b.k = "inf" THEN b.m > 0
  ELSE a.m * Pow10(b.e) < b.m * Pow10(a.e)

\* a == b on floats
FloatEq(a, b) ==
  IF a.k = "nan" \/ b.k = "nan" THEN FALSE
  ELSE IF a.k = "inf" \/ b.k = "inf" THEN a.k = b.k /\ a.m = b.m
  ELSE a.m * Pow10(b.e) = b.m * Pow10(a.e)

\* a >= b on floats
FloatGe(a, b) == FloatLt(b, a) \/ FloatEq(a, b)

(***************************************************************************)
(* Cells of the table.  read_csv gives NaN for an empty cell and the text  *)
(* for any other; None is what a caller could pass instead of a value.     *)
(***************************************************************************)

NaNCell == [k |-> "nan", s |-> <<>>]

NoneCell == [k |-> "none", s |-> <<>>]

Text(s) == [k |-> "str", s |-> s]

\* str(value)
PyStr(v) ==
  IF v.k = "nan" THEN <<"n","a","n">>
  ELSE IF v.k = "none" THEN <<"N","o","n","e">>
  ELSE v.s

\* float(value)
PyFloat(v) ==
  IF v.k = "nan" THEN NaN
  ELSE IF v.k = "none" THEN TypeErrorResult
  ELSE ParseFloat(v.s)

(***************************************************************************)
(* A student is one row of the table: the columns the table has and the   *)
(* cell of each.  The columns are the same for every row of a table.      *)
(***************************************************************************)

Columns == {"id", "Gender", "Age", "Academic Pressure", "Study Satisfaction",
            "Sleep Duration"}

\* student[key] raises KeyError when the table has no such column.
HasKey(student, key) == key \in student.cols

\* student[key], for a column the table has
GetItem(student, key) == student.cell[key]

\* def normalize_value(value)
normalize_value(value) ==
  IF value.k = "none" THEN NoneCell
  ELSE Text(Remove(Remove(Lower(Strip(PyStr(value))), "'"), "\""))

\* What a call of matchesStudent does: returns True, returns False, or lets
\* a KeyError escape.
Outcome(b) == IF b THEN "True" ELSE "False"

\* float(...) raised one of the exceptions of `except (ValueError, TypeError)`
Caught(x) == x.k \in {"ValueError", "TypeError"}

\* class IsFemale
IsFemale(student) ==
  IF ~HasKey(student, "Gender") THEN "KeyError"
  ELSE Outcome(normalize_value(GetItem(student, "Gender"))
                 = Text(<<"f","e","m","a","l","e">>))

\* class IsMale
IsMale(student) ==
  IF ~HasKey(student, "Gender") THEN "KeyError"
  ELSE Outcome(normalize_value(GetItem(student, "Gender"))
                 = Text(<<"m","a","l","e">>))

\* IsYoung with the lower threshold included: 17 <= age < 25
IsYoung_Inclusive(student) ==
  IF ~HasKey(student, "Age") THEN "KeyError"
  ELSE LET age == PyFloat(GetItem(student, "Age"))
       IN  IF Caught(age) THEN "False"
           ELSE Outcome(FloatGe(age, Num(17, 0)) /\ FloatLt(age, Num(25, 0)))

\* class IsYoung
IsYoung(student) ==
  IF ~HasKey(student, "Age") THEN "KeyError"
  ELSE LET age == PyFloat(GetItem(student, "Age"))
       IN  IF Caught(age) THEN "False"
           ELSE Outcome(FloatLt(Num(17, 0), age) /\ FloatLt(age, Num(25, 0)))

\* class IsYoungAdult
IsYoungAdult(student) ==
  IF ~HasKey(student, "Age") THEN "KeyError"
  ELSE LET age == PyFloat(GetItem(student, "Age"))
       IN  IF Caught(age) THEN "False"
           ELSE Outcome(FloatLt(Num(24, 0), age) /\ FloatLt(age, Num(40, 0)))

\* class IsAdult
IsAdult(student) ==
  IF ~HasKey(student, "Age") THEN "KeyError"
  ELSE LET age == PyFloat(GetItem(student, "Age"))
       IN  IF Caught(age) THEN "False"
           ELSE Outcome(FloatGe(age, Num(40, 0)))

\* class HasLowAcademicPressure
HasLowAcademicPressure(student) ==
  IF ~HasKey(student, "Academic Pressure") THEN "KeyError"
  ELSE LET academicPressure == PyFloat(GetItem(student, "Academic Pressure"))
       IN  IF Caught(academicPressure) THEN "False"
           ELSE Outcome(FloatLt(academicPressure, Num(30, 1)))

\* HasMediumAcademicPressure with >= for ==
HasMediumAcademicPressure_AtLeast(student) ==
  IF ~HasKey(student, "Academic Pressure") THEN "KeyError"
  ELSE LET academicPressure == PyFloat(GetItem(student, "Academic Pressure"))
       IN  IF Caught(academicPressure) THEN "False"
           ELSE Outcome(FloatGe(academicPressure, Num(30, 1)))

\* class HasMediumAcademicPressure
HasMediumAcademicPressure(student) ==
  IF ~HasKey(student, "Academic Pressure") THEN "KeyError"
  ELSE LET academicPressure == PyFloat(GetItem(student, "Academic Pressure"))
       IN  IF Caught(academicPressure) THEN "False"
           ELSE Outcome(FloatEq(academicPressure, Num(30, 1)))

\* class HasHighAcademicPressure
HasHighAcademicPressure(student) ==
  IF ~HasKey(student, "Academic Pressure") THEN "KeyError"
  ELSE LET academicPressure == PyFloat(GetItem(student, "Academic Pressure"))
       IN  IF Caught(academicPressure) THEN "False"
           ELSE Outcome(FloatLt(Num(30, 1), academicPressure))

\* class HasLowStudySatisfaction
HasLowStudySatisfaction(student) ==
  IF ~HasKey(student, "Study Satisfaction") THEN "KeyError"
  ELSE LET studySatisfaction == PyFloat(GetItem(student, "Study Satisfaction"))
       IN  IF Caught(studySatisfaction) THEN "False"
           ELSE Outcome(FloatLt(studySatisfaction, Num(30, 1)))

\* class HasMediumStudySatisfaction
HasMediumStudySatisfaction(student) ==
  IF ~HasKey(student, "Study Satisfaction") THEN "KeyError"
  ELSE LET studySatisfaction == PyFloat(GetItem(student, "Study Satisfaction"))
       IN  IF Caught(studySatisfaction) THEN "False"
           ELSE Outcome(FloatEq(studySatisfaction, Num(30, 1)))

\* class HasHighStudySatisfaction
HasHighStudySatisfaction(student) ==
  IF ~HasKey(student, "Study Satisfaction") THEN "KeyError"
  ELSE LET studySatisfaction == PyFloat(GetItem(student, "Study Satisfaction"))
       IN  IF Caught(studySatisfaction) THEN "False"
           ELSE Outcome(FloatLt(Num(30, 1), studySatisfaction))

\* str(student["Sleep Duration"]).strip().replace("'", "")
SleepValue(student) ==
  Remove(Strip(PyStr(GetItem(student, "Sleep Duration"))), "'")

Sleep78 == <<"7","-","8"," ","h","o","u","r","s">>

SleepMore8 == <<"M","o","r","e"," ","t","h","a","n"," ","8"," ","h","o","u","r","s">>

SleepLess5 == <<"L","e","s","s"," ","t","h","a","n"," ","5"," ","h","o","u","r","s">>

Sleep56 == <<"5","-","6"," ","h","o","u","r","s">>

\* class HasGoodSleep
HasGoodSleep(student) ==
  IF ~HasKey(student, "Sleep Duration") THEN "KeyError"
  ELSE Outcome(SleepValue(student) \in {Sleep78, SleepMore8})

\* class HasBadSleep
HasBadSleep(student) ==
  IF ~HasKey(student, "Sleep Duration") THEN "KeyError"
  ELSE Outcome(SleepValue(student) \in {SleepLess5, Sleep56})

\* attributes = [HasGoodSleep(), HasBadSleep(), ...], each by its getName()
attribute_nodes ==
  <<"HasGoodSleep", "HasBadSleep", "Gender_Female", "Gender_Male",
    "Age_Young", "Age_Young_Adult", "Age_Adult",
    "Low_Academic_Pressure", "Medium_Academic_Pressure",
    "High_Academic_Pressure", "Low_Study_Satisfaction",
    "Medium_Study_Satisfaction", "High_Study_Satisfaction">>

\* attr.matchesStudent(student), attr the catalog entry named `name`
matchesStudent(name, student) ==
  CASE name = "HasGoodSleep" -> HasGoodSleep(student)
    [] name = "HasBadSleep" -> HasBadSleep(student)
    [] name = "Gender_Female" -> IsFemale(student)
    [] name = "Gender_Male" -> IsMale(student)
    [] name = "Age_Young" -> IsYoung(student)
    [] name = "Age_Young_Adult" -> IsYoungAdult(student)
    [] name = "Age_Adult" -> IsAdult(student)
    [] name = "Low_Academic_Pressure" -> HasLowAcademicPressure(student)
    [] name = "Medium_Academic_Pressure" -> HasMediumAcademicPressure(student)
    [] name = "High_Academic_Pressure" -> HasHighAcademicPressure(student)
    [] name = "Low_Study_Satisfaction" -> HasLowStudySatisfaction(student)
    [] name = "Medium_Study_Satisfaction" -> HasMediumStudySatisfaction(student)
    [] name = "High_Study_Satisfaction" -> HasHighStudySatisfaction(student)

\* str(student["id"]) and data["id"].astype(str): an id is kept as one
\* opaque string (the id column holds text), an empty id cell is "nan".
IdStr(v) == IF v.k = "nan" THEN "nan" ELSE v.s

(***************************************************************************)
(* The inputs: the command line and the file at the given path.            *)
(***************************************************************************)

\* The most rows a table with repeated or colliding ids holds.
MaxRecords == 2

ProgName == <<"b",".","p","y">>

CsvPath == <<"d",".","c","s","v">>

\* sys.argv: no path; a path; a path and a sample percentage.
Argvs ==
  {<<ProgName>>, <<ProgName, CsvPath>>}
  \cup {<<ProgName, CsvPath, p>> :
          p \in {<<"5","0">>, <<"1","0","0">>, <<"0">>, <<"1","5","0">>, <<"-","5">>, <<"a","b","c">>, <<"n","a","n">>}}

\* Cells of the Age column that a table may hold.
AgeCells ==
  {Text(<<"1","7">>),
   Text(<<"2","0">>),
   Text(<<"2","4">>),
   Text(<<"2","4",".","5">>),
   Text(<<"2","5">>),
   Text(<<"3","0">>),
   Text(<<"4","0">>),
   Text(<<"a","b","c">>),
   Text(<<"i","n","f">>),
   NaNCell}

\* Cells of the Sleep Duration column.
SleepCells ==
  {Text(<<"'","7","-","8"," ","h","o","u","r","s","'">>),
   Text(<<" ","7","-","8"," ","h","o","u","r","s"," ">>),
   Text(<<"'","M","o","r","e"," ","t","h","a","n"," ","8"," ","h","o","u","r","s","'">>),
   Text(<<"m","o","r","e"," ","t","h","a","n"," ","8"," ","h","o","u","r","s">>),
   Text(<<"7","-","8"," ","H","O","U","R","S">>),
   Text(<<"\"","7","-","8"," ","h","o","u","r","s","\"">>),
   Text(<<"'","L","e","s","s"," ","t","h","a","n"," ","5"," ","h","o","u","r","s","'">>),
   Text(<<"5","-","6"," ","h","o","u","r","s">>),
   Text(<<"'","5","-","6"," ","H","o","u","r","s","'">>),
   Text(<<"O","t","h","e","r","s">>),
   NaNCell}

\* Cells of the Gender column.
GenderCells ==
  {Text(<<"F","e","m","a","l","e">>),
   Text(<<" ","'","m","a","l","e","'"," ">>),
   Text(<<"M","a","l","e">>),
   Text(<<"O","t","h","e","r">>),
   NaNCell}

\* Cells of the Academic Pressure column.
PressureCells ==
  {Text(<<"2",".","9">>),
   Text(<<"3",".","0">>),
   Text(<<"5">>),
   Text(<<"a","b","c">>),
   NaNCell}

\* Cells of the Study Satisfaction column.
SatisfactionCells ==
  {Text(<<"2">>),
   Text(<<"3",".","0">>),
   Text(<<"4",".","5">>),
   NaNCell}

\* Cells of the id column: plain ids, and ids spelled like an attribute.
IdCells == {[k |-> "str", s |-> "1"], [k |-> "str", s |-> "2"],
            [k |-> "str", s |-> "Gender_Female"],
            [k |-> "str", s |-> "Gender_Male"]}

Row(id, gender, age, pressure, satisfaction, sleep) ==
  [c \in Columns |->
     CASE c = "id" -> id
       [] c = "Gender" -> gender
       [] c = "Age" -> age
       [] c = "Academic Pressure" -> pressure
       [] c = "Study Satisfaction" -> satisfaction
       [] c = "Sleep Duration" -> sleep]

\* The rows of the one-row tables: every combination of the numeric cells
\* beside fixed text cells, and every combination of the text cells beside
\* fixed numeric cells.
WideRows ==
  {Row([k |-> "str", s |-> "1"], Text(<<"F","e","m","a","l","e">>), a, p, t, Text(<<"O","t","h","e","r","s">>)) :
     a \in AgeCells, p \in PressureCells, t \in SatisfactionCells}
  \cup
  {Row([k |-> "str", s |-> "1"], g, Text(<<"2","0">>), NaNCell, Text(<<"4",".","5">>), z) :
     g \in GenderCells, z \in SleepCells}

\* Rows of the tables with several rows: any id with one of three profiles
\* (the last one matches no attribute).
FewRows ==
  {Row(id, r[1], r[2], r[3], r[4], r[5]) :
     id \in IdCells,
     r \in {<<Text(<<"F","e","m","a","l","e">>), Text(<<"2","0">>), Text(<<"2",".","9">>),
              Text(<<"3",".","0">>), Text(<<"'","7","-","8"," ","h","o","u","r","s","'">>)>>,
            <<Text(<<"M","a","l","e">>), Text(<<"3","0">>), Text(<<"5">>),
              Text(<<"a","b","c">>), Text(<<"'","5","-","6"," ","h","o","u","r","s","'">>)>>,
            <<NaNCell, NaNCell, NaNCell, NaNCell, NaNCell>>}}

\* Sequences over S of length at most n.
SeqsUpTo(S, n) == UNION {[1..k -> S] : k \in 0..n}

\* A table lacking column c: the cells of c do not exist.
Without(rows, c) ==
  [j \in 1..Len(rows) |-> [rows[j] EXCEPT ![c] = NaNCell]]

\* What pd.read_csv can find at csv_path: no file, or a table.
Files ==
  {[exists |-> FALSE, cols |-> {}, rows |-> <<>>]}
  \cup {[exists |-> TRUE, cols |-> Columns, rows |-> <<r>>] : r \in WideRows}
  \cup {[exists |-> TRUE, cols |-> Columns, rows |-> rs] :
          rs \in SeqsUpTo(FewRows, MaxRecords)}
  \cup {[exists |-> TRUE, cols |-> Columns \ {c}, rows |-> Without(rs, c)] :
          c \in Columns, rs \in SeqsUpTo(FewRows, MaxRecords)}

(***************************************************************************)
(* pandas and networkx                                                     *)
(***************************************************************************)

\* round(p / q) for p >= 0, q > 0, as Python rounds: halves go to even.
RoundHalfEven(p, q) ==
  LET fl == p \div q
      r == p % q
  IN  IF 2 * r < q THEN fl
      ELSE IF 2 * r > q THEN fl + 1
      ELSE IF fl % 2 = 0 THEN fl ELSE fl + 1

\* The number of rows data.sample(frac=percentage / 100) keeps out of n.
SampleSize(percentage, n) ==
  RoundHalfEven(percentage.m * n, 100 * Pow10(percentage.e))

\* The ways of drawing k of n rows without replacement, in drawing order.
\* The draw is fixed by random_state=42; which one it is, is left open.
Draws(n, k) ==
  {f \in [1..k -> 1..n] : \A a, b \in 1..k : a # b => f[a] # f[b]}

\* nx.Graph(): no node, no edge
EmptyGraph == [node |-> [n \in {} |-> 0], edge |-> {}]

\* G.add_nodes_from(ns, bipartite=side): new nodes are added, and the
\* attribute is set on every node of ns, also on those already there.
add_nodes_from(G, ns, side) ==
  [G EXCEPT !.node = [n \in (DOMAIN G.node) \cup ns |->
                        IF n \in ns THEN side ELSE G.node[n]]]

\* add_edges_from that leaves out the last edge of the list
add_edges_from_DropLast(G, es) ==
  [G EXCEPT !.edge = G.edge \cup {{es[j][1], es[j][2]} : j \in 1..(Len(es) - 1)}]

\* G.add_edges_from(es): an edge is the unordered pair of its ends (one
\* element for a self-loop); an end that is no node yet becomes a node
\* without the bipartite attribute (-1).
add_edges_from(G, es) ==
  LET ends == {es[j][1] : j \in 1..Len(es)} \cup {es[j][2] : j \in 1..Len(es)}
  IN  [node |-> [n \in (DOMAIN G.node) \cup ends |->
                   IF n \in DOMAIN G.node THEN G.node[n] ELSE -1],
       edge |-> G.edge \cup {{es[j][1], es[j][2]} : j \in 1..Len(es)}]

\* The attribute loop with a break after the first match
RECURSIVE ForAttr_Break(_, _, _)
ForAttr_Break(student, student_id, attrs) ==
  IF attrs = <<>> THEN [edges |-> <<>>, raised |-> FALSE]
  ELSE LET r == matchesStudent(Head(attrs), student)
       IN  IF r = "KeyError" THEN [edges |-> <<>>, raised |-> TRUE]
           ELSE IF r = "True"
             THEN [edges |-> <<<<student_id, Head(attrs)>>>>, raised |-> FALSE]
           ELSE ForAttr_Break(student, student_id, Tail(attrs))

\* The body of `for attr in attributes` for one student and the attributes
\* attrs, in order: the edges appended, and whether a matchesStudent call
\* raised (which ends the loop, keeping what was appended before).
RECURSIVE ForAttr(_, _, _)
ForAttr(student, student_id, attrs) ==
  IF attrs = <<>> THEN [edges |-> <<>>, raised |-> FALSE]
  ELSE LET r == matchesStudent(Head(attrs), student)
       IN  IF r = "KeyError" THEN [edges |-> <<>>, raised |-> TRUE]
           ELSE LET rest == ForAttr(student, student_id, Tail(attrs))
                IN  [edges |-> (IF r = "True"
                                  THEN <<<<student_id, Head(attrs)>>>>
                                  ELSE <<>>) \o rest.edges,
                     raised |-> rest.raised]

(***************************************************************************)
(* The script, statement by statement.                                     *)
(***************************************************************************)

VARIABLES pc, argv, sample_percentage, data, students, B, edges, row, summary

vars == <<pc, argv, sample_percentage, data, students, B, edges, row, summary>>

\* The row-th row of data, as iterrows() yields it.
Student(j) == [cols |-> data.cols, cell |-> data.rows[j]]

NoSummary == [nodes |-> -1, edges |-> -1]

Init ==
  /\ pc = "argv"
  /\ argv \in Argvs
  /\ sample_percentage = Num(100, 0)
  /\ data = [cols |-> {}, rows |-> <<>>]
  /\ students = <<>>
  /\ B = EmptyGraph
  /\ edges = <<>>
  /\ row = 0
  /\ summary = NoSummary

\* if len(sys.argv) < 2: print usage; sys.exit(1)
CheckArgv ==
  /\ pc = "argv"
  /\ pc' = IF Len(argv) < 2 THEN "exit1" ELSE "percentage"
  /\ UNCHANGED <<argv, sample_percentage, data, students, B, edges, row, summary>>

\* The percentage given is a float in [0, 100].
ValidPercentage(x) ==
  /\ ~Caught(x)
  /\ FloatGe(x, Num(0, 0))
  /\ FloatGe(Num(100, 0), x)

\* sample_percentage = 100; if len(sys.argv) >= 3: try float(sys.argv[2]) ...
ParsePercentage ==
  /\ pc = "percentage"
  /\ IF Len(argv) >= 3
       THEN LET x == ParseFloat(argv[3])
            IN  IF ValidPercentage(x)
                  THEN pc' = "read" /\ sample_percentage' = x
                  ELSE pc' = "exit1" /\ UNCHANGED sample_percentage
       ELSE pc' = "read" /\ UNCHANGED sample_percentage
  /\ UNCHANGED <<argv, data, students, B, edges, row, summary>>

\* try: data = pd.read_csv(csv_path) except FileNotFoundError: sys.exit(1)
ReadCsv ==
  /\ pc = "read"
  /\ \E file \in Files :
       IF file.exists
         THEN pc' = "sample" /\ data' = [cols |-> file.cols, rows |-> file.rows]
         ELSE pc' = "exit1" /\ UNCHANGED data
  /\ UNCHANGED <<argv, sample_percentage, students, B, edges, row, summary>>

\* if sample_percentage < 100: data = data.sample(...).reset_index(drop=True)
Sample ==
  /\ pc = "sample"
  /\ IF FloatLt(sample_percentage, Num(100, 0))
       THEN \E f \in Draws(Len(data.rows),
                           SampleSize(sample_percentage, Len(data.rows))) :
              data' = [data EXCEPT !.rows = [j \in DOMAIN f |-> data.rows[f[j]]]]
       ELSE UNCHANGED data
  /\ pc' = "students"
  /\ UNCHANGED <<argv, sample_percentage, students, B, edges, row, summary>>

\* students = data["id"].astype(str).tolist(); KeyError without an id column
Students ==
  /\ pc = "students"
  /\ IF "id" \in data.cols
       THEN /\ students' = [j \in 1..Len(data.rows) |-> IdStr(data.rows[j]["id"])]
            /\ pc' = "graph"
       ELSE /\ pc' = "crash"
            /\ UNCHANGED students
  /\ UNCHANGED <<argv, sample_percentage, data, B, edges, row, summary>>

\* B = nx.Graph(); B.add_nodes_from(students, bipartite=0)
AddStudentNodes ==
  /\ pc = "graph"
  /\ B' = add_nodes_from(EmptyGraph, {students[j] : j \in 1..Len(students)}, 0)
  /\ pc' = "attribute_nodes"
  /\ UNCHANGED <<argv, sample_percentage, data, students, edges, row, summary>>

\* B.add_nodes_from(attribute_nodes, bipartite=1); edges = []
AddAttributeNodes ==
  /\ pc = "attribute_nodes"
  /\ B' = add_nodes_from(B, {attribute_nodes[j] : j \in 1..Len(attribute_nodes)}, 1)
  /\ edges' = <<>>
  /\ pc' = "scan"
  /\ UNCHANGED <<argv, sample_percentage, data, students, row, summary>>

\* One turn of `for _, student in data.iterrows()`: the student is
\* classified by every attribute, in catalog order.
ScanStudent ==
  /\ pc = "scan"
  /\ row < Len(data.rows)
  /\ row' = row + 1
  /\ LET student == Student(row + 1)
     IN  IF ~HasKey(student, "id")
           THEN pc' = "crash" /\ UNCHANGED edges
           ELSE LET r == ForAttr(student, IdStr(GetItem(student, "id")),
                                 attribute_nodes)
                IN  /\ edges' = edges \o r.edges
                    /\ pc' = IF r.raised THEN "crash" ELSE "scan"
  /\ UNCHANGED <<argv, sample_percentage, data, students, B, summary>>

\* B.add_edges_from(edges), once the loop is over
AddEdges ==
  /\ pc = "scan"
  /\ row = Len(data.rows)
  /\ B' = add_edges_from(B, edges)
  /\ pc' = "summary"
  /\ UNCHANGED <<argv, sample_percentage, data, students, edges, row, summary>>

\* print(B.number_of_nodes()), print(B.number_of_edges())
PrintSummary ==
  /\ pc = "summary"
  /\ summary' = [nodes |-> Cardinality(DOMAIN B.node),
                 edges |-> Cardinality(B.edge)]
  /\ pc' = "done"
  /\ UNCHANGED <<argv, sample_percentage, data, students, B, edges, row>>

Next ==
  \/ CheckArgv
  \/ ParsePercentage
  \/ ReadCsv
  \/ Sample
  \/ Students
  \/ AddStudentNodes
  \/ AddAttributeNodes
  \/ ScanStudent
  \/ AddEdges
  \/ PrintSummary

Spec == Init /\ [][Next]_vars

(***************************************************************************)
(* Properties                                                              *)
(***************************************************************************)

\* The rows the loop has taken up so far.
Scanned == 1..row

AttributeNames == {attribute_nodes[j] : j \in 1..Len(attribute_nodes)}

AgeNames == {"Age_Young", "Age_Young_Adult", "Age_Adult"}

PressureNames == {"Low_Academic_Pressure", "Medium_Academic_Pressure",
                  "High_Academic_Pressure"}

SatisfactionNames == {"Low_Study_Satisfaction", "Medium_Study_Satisfaction",
                      "High_Study_Satisfaction"}

\* The column an attribute reads.
FieldOf(name) ==
  IF name \in AgeNames THEN "Age"
  ELSE IF name \in PressureNames THEN "Academic Pressure"
  ELSE IF name \in SatisfactionNames THEN "Study Satisfaction"
  ELSE IF name \in {"Gender_Female", "Gender_Male"} THEN "Gender"
  ELSE "Sleep Duration"

\* The attributes of a group that return True for a student.
TrueAttrs(student, group) ==
  {a \in group : matchesStudent(a, student) = "True"}

\* The attributes of a group that the node id is adjacent to in B.
GraphAttrs(id, group) == {a \in group : {id, a} \in B.edge}

\* The run is over and its table had the single row 1.
DoneWithOneRow == pc = "done" /\ Len(data.rows) = 1

\* The student's column holds a number equal to m / 10^e.
FieldIs(student, key, m, e) ==
  /\ HasKey(student, key)
  /\ LET x == PyFloat(GetItem(student, key))
     IN  ~Caught(x) /\ FloatEq(x, Num(m, e))

\* The student's column is missing, empty, or (for a numeric column) text
\* that float() rejects.
Malformed(student, key) ==
  \/ ~HasKey(student, key)
  \/ GetItem(student, key).k \in {"nan", "none"}
  \/ /\ key \in {"Age", "Academic Pressure", "Study Satisfaction"}
     /\ Caught(PyFloat(GetItem(student, key)))

\* C1: for every attribute and every scanned record whose consumed field is
\* missing, empty or not a number, matchesStudent returns False and never
\* raises, so the build loop never aborts during classification.
C1_PredicateTotality ==
  /\ \A j \in Scanned : \A a \in AttributeNames :
       Malformed(Student(j), FieldOf(a))
         => matchesStudent(a, Student(j)) = "False"
  /\ (row >= 1 => pc # "crash")

\* The age attributes the claim gives for the ages it lists.
AgeAsClaimed ==
  (17 :> {}) @@ (20 :> {"Age_Young"}) @@ (24 :> {}) @@ (25 :> {})
    @@ (30 :> {"Age_Young_Adult"}) @@ (40 :> {"Age_Adult"})

\* The age attributes the thresholds give for the same ages.
AgeAsCoded ==
  (17 :> {}) @@ (20 :> {"Age_Young"}) @@ (24 :> {"Age_Young"})
    @@ (25 :> {"Age_Young_Adult"}) @@ (30 :> {"Age_Young_Adult"})
    @@ (40 :> {"Age_Adult"})

\* A scanned record of age n matches exactly the age attributes expected[n],
\* and in the graph of a one-row table its node is adjacent to exactly those.
AgeBoundaries(expected) ==
  \A j \in Scanned : \A n \in DOMAIN expected :
    FieldIs(Student(j), "Age", n, 0)
      => /\ TrueAttrs(Student(j), AgeNames) = expected[n]
         /\ DoneWithOneRow
              => GraphAttrs(IdStr(GetItem(Student(j), "id")), AgeNames)
                   = expected[n]

\* C2 as claimed: age 17 matches no age attribute, 20 Age_Young only, 24 no
\* age attribute, 25 no age attribute, 30 Age_Young_Adult only, 40 Age_Adult
\* only.
C2_AsClaimed == AgeBoundaries(AgeAsClaimed)

\* C2 amended: age 17 matches no age attribute, 20 Age_Young only, 24
\* Age_Young only, 25 Age_Young_Adult only, 30 Age_Young_Adult only, 40
\* Age_Adult only.
C2_AgeBoundaries == AgeBoundaries(AgeAsCoded)

\* A finished one-row run whose record has age 24 and an Age_Young edge.
C2_Witness ==
  /\ DoneWithOneRow
  /\ FieldIs(Student(1), "Age", 24, 0)
  /\ GraphAttrs(IdStr(GetItem(Student(1), "id")), AgeNames) = {"Age_Young"}

\* C3: for every scanned record, whatever its Age, at most one of Age_Young,
\* Age_Young_Adult, Age_Adult is true, so that no record node of the built
\* graph is adjacent to two age attribute nodes.
C3_AgeExclusive ==
  /\ \A j \in Scanned : Cardinality(TrueAttrs(Student(j), AgeNames)) <= 1
  /\ DoneWithOneRow
       => Cardinality(GraphAttrs(students[1], AgeNames)) <= 1

NormGood == {<<"7","-","8"," ","h","o","u","r","s">>, <<"m","o","r","e"," ","t","h","a","n"," ","8"," ","h","o","u","r","s">>}

NormBad == {<<"l","e","s","s"," ","t","h","a","n"," ","5"," ","h","o","u","r","s">>, <<"5","-","6"," ","h","o","u","r","s">>}

\* C4: sleep classification works on the normalized value: every scanned
\* record whose normalized Sleep Duration is "7-8 hours" or "more than 8
\* hours" has HasGoodSleep true and HasBadSleep false, and every one whose
\* normalized value is "less than 5 hours" or "5-6 hours" has HasBadSleep
\* true and HasGoodSleep false, whatever the case, padding and quoting.
C4_SleepNormalized ==
  \A j \in Scanned :
    HasKey(Student(j), "Sleep Duration") =>
      LET n == normalize_value(GetItem(Student(j), "Sleep Duration")).s
      IN  /\ n \in NormGood
               => /\ HasGoodSleep(Student(j)) = "True"
                  /\ HasBadSleep(Student(j)) = "False"
          /\ n \in NormBad
               => /\ HasBadSleep(Student(j)) = "True"
                  /\ HasGoodSleep(Student(j)) = "False"

\* The graph is built: add_edges_from has run.
Built == pc \in {"summary", "done"}

StudentIds == {students[j] : j \in 1..Len(students)}

\* C5: after construction the record nodes (bipartite=0) and the attribute
\* nodes (bipartite=1) are disjoint partitions, and every edge has exactly
\* one end in each: no edge joins two record nodes, two attribute nodes, or
\* a node to itself.
C5_Bipartite ==
  Built =>
    /\ \A n \in StudentIds : B.node[n] = 0
    /\ \A n \in AttributeNames : B.node[n] = 1
    /\ \A e \in B.edge :
         /\ Cardinality(e) = 2
         /\ \E u, v \in e : B.node[u] = 0 /\ B.node[v] = 1

\* str(r.id) of the j-th record of the table
RecordId(j) == IdStr(data.rows[j]["id"])

Records == 1..Len(data.rows)

\* The (identifier, attribute name) pairs with a true evaluation.
TruePairs ==
  {p \in {RecordId(j) : j \in Records} \X AttributeNames :
     \E j \in Records :
       RecordId(j) = p[1] /\ matchesStudent(p[2], Student(j)) = "True"}

\* C6 as claimed: after construction, for every record r and attribute a the
\* edge (str(r.id), a.getName()) is in the graph iff a.matchesStudent(r)
\* returned true, and the edge count is the number of distinct (identifier,
\* attribute name) pairs with a true evaluation.
C6_AsClaimed ==
  pc = "done" =>
    /\ \A j \in Records : \A a \in AttributeNames :
         ({RecordId(j), a} \in B.edge)
           <=> (matchesStudent(a, Student(j)) = "True")
    /\ summary.edges = Cardinality(TruePairs)

\* C6 amended: after construction the edge set is exactly the set of
\* unordered pairs {str(r.id), a.getName()} over the records r and the
\* attributes a with a.matchesStudent(r) true (an edge is there iff some
\* record carrying that identifier matched), each pair once, and the edge
\* count is the number of distinct such unordered pairs.
C6_EdgeSet ==
  pc = "done" =>
    /\ B.edge = {{p[1], p[2]} : p \in TruePairs}
    /\ summary.edges = Cardinality({{p[1], p[2]} : p \in TruePairs})

\* A finished run with two records of one identifier, an attribute matching
\* one of them only, and the edge in the graph.
C6_Witness ==
  /\ pc = "done"
  /\ \E j, k \in Records : \E a \in AttributeNames :
       /\ RecordId(j) = RecordId(k)
       /\ matchesStudent(a, Student(j)) = "True"
       /\ matchesStudent(a, Student(k)) = "False"
       /\ {RecordId(j), a} \in B.edge

\* C7: after construction the node set is exactly the distinct record
\* identifiers plus all 13 attribute names, every record and every attribute
\* has a node whatever it matches, and the node count is (number of distinct
\* identifiers) + (number of distinct attribute names).
C7_NodeSet ==
  pc = "done" =>
    /\ DOMAIN B.node = {RecordId(j) : j \in Records} \cup AttributeNames
    /\ Cardinality(AttributeNames) = 13
    /\ summary.nodes = Cardinality({RecordId(j) : j \in Records})
                         + Cardinality(AttributeNames)

\* The three score attributes low, medium, high of column key split the
\* numbers at 3.0, and none of them is true without a number.
ScoreBrackets(student, key, low, medium, high) ==
  LET group == {low, medium, high}
  IN  IF ~HasKey(student, key) THEN TrueAttrs(student, group) = {}
      ELSE LET p == PyFloat(GetItem(student, key))
           IN  IF Caught(p) \/ p.k = "nan"
                 THEN \A a \in group : matchesStudent(a, student) = "False"
                 ELSE /\ Cardinality(TrueAttrs(student, group)) = 1
                      /\ (low \in TrueAttrs(student, group))
                           <=> FloatLt(p, Num(3, 0))
                      /\ (medium \in TrueAttrs(student, group))
                           <=> FloatEq(p, Num(3, 0))
                      /\ (high \in TrueAttrs(student, group))
                           <=> FloatLt(Num(3, 0), p)

\* C8: for every scanned record with a parseable Academic Pressure p exactly
\* one of Low_/Medium_/High_Academic_Pressure is true, Low iff p < 3.0,
\* Medium iff p = 3.0, High iff p > 3.0 (3.0 gives Medium only, 2.9 Low
\* only); the same for Study Satisfaction; with an unparseable score none of
\* the three is true; the graph of a one-row table has exactly these edges.
C8_ScoreBrackets ==
  \A j \in Scanned :
    /\ ScoreBrackets(Student(j), "Academic Pressure", "Low_Academic_Pressure",
                     "Medium_Academic_Pressure", "High_Academic_Pressure")
    /\ ScoreBrackets(Student(j), "Study Satisfaction", "Low_Study_Satisfaction",
                     "Medium_Study_Satisfaction", "High_Study_Satisfaction")
    /\ FieldIs(Student(j), "Academic Pressure", 30, 1)
         => TrueAttrs(Student(j), PressureNames) = {"Medium_Academic_Pressure"}
    /\ FieldIs(Student(j), "Academic Pressure", 29, 1)
         => TrueAttrs(Student(j), PressureNames) = {"Low_Academic_Pressure"}
    /\ DoneWithOneRow
         => \A group \in {PressureNames, SatisfactionNames} :
              GraphAttrs(RecordId(j), group) = TrueAttrs(Student(j), group)

\* A finished one-row run with pressure 2.9 (Low only in the graph) and
\* satisfaction 3.0 (Medium only in the graph).
C8_Witness ==
  /\ DoneWithOneRow
  /\ FieldIs(Student(1), "Academic Pressure", 29, 1)
  /\ FieldIs(Student(1), "Study Satisfaction", 3, 0)
  /\ GraphAttrs(RecordId(1), PressureNames) = {"Low_Academic_Pressure"}
  /\ GraphAttrs(RecordId(1), SatisfactionNames) = {"Medium_Study_Satisfaction"}

\* What the attribute loop appends for each record of the table, with the
\* catalog in the order attrs.
RowEdges(attrs) ==
  [j \in Records |-> ForAttr(Student(j), RecordId(j), attrs).edges]

\* The edges list after the loop over the records in the order f[k], f[k+1],
\* ..., each appending per[its number].
RECURSIVE ScanAll(_, _, _)
ScanAll(per, f, k) ==
  IF k > Len(f) THEN <<>> ELSE per[f[k]] \o ScanAll(per, f, k + 1)

\* The graph built with the records scanned in the order f and appending
\* per[j] for record j, the catalog being attrs.
GraphOf(per, f, attrs) ==
  add_edges_from(
    add_nodes_from(
      add_nodes_from(EmptyGraph, {RecordId(f[j]) : j \in 1..Len(f)}, 0),
      {attrs[j] : j \in 1..Len(attrs)}, 1),
    ScanAll(per, f, 1))

\* Every order of the records.
RowOrders == Draws(Len(data.rows), Len(data.rows))

\* The catalog backwards, and the catalog started at its second and at its
\* seventh entry.
AttrOrders ==
  LET n == Len(attribute_nodes)
  IN  {[j \in 1..n |-> attribute_nodes[n + 1 - j]]}
      \cup {[j \in 1..n |-> attribute_nodes[((j + k - 1) % n) + 1]] : k \in {1, 6}}

\* C9: for a fixed record collection and catalog, the final node set and
\* edge set are the same whatever order the records are scanned in and
\* whatever order the attributes are evaluated in for each record (the
\* catalog orders tried are the reverse and two rotations).
C9_OrderIndependent ==
  pc = "done" =>
    \A attrs \in AttrOrders :
      LET per == RowEdges(attrs)
      IN  \A f \in RowOrders :
            LET G == GraphOf(per, f, attrs)
            IN  DOMAIN G.node = DOMAIN B.node /\ G.edge = B.edge

\* A finished run over two different records, with edges in the graph.
C9_Witness ==
  /\ pc = "done"
  /\ Len(data.rows) >= 2
  /\ data.rows[1] # data.rows[2]
  /\ Cardinality(B.edge) >= 2

\* The command line is one the script rejects.
BadArgv ==
  \/ Len(argv) < 2
  \/ Len(argv) >= 3 /\ ~ValidPercentage(ParseFloat(argv[3]))

\* C10: with a bad percentage, no path, or no file the run exits with an
\* error before any predicate is evaluated or any node or edge is created,
\* and a run that has begun classification is never aborted.
C10_AbortOrComplete ==
  /\ BadArgv => pc \in {"argv", "percentage", "exit1"}
  /\ pc = "exit1" => row = 0 /\ B = EmptyGraph /\ edges = <<>>
  /\ row >= 1 => pc \in {"scan", "summary", "done"}
====
